---- MODULE Spec2Model ----
(***************************************************************************)
(* Model of src/src/mcp/run_agent.py: the MCP client (JSON-RPC over the    *)
(* peer's stdio), the stderr drain thread, the readiness wait, the agent's *)
(* initialization, the turn loop and the shutdown of the peer process.     *)
(*                                                                         *)
(* Two threads of the program act: the main thread (main, and everything   *)
(* it calls) and the daemon thread running MCPClient._read_stderr.  The    *)
(* peer process, the LLM policy, the clock and the operator (Ctrl+C) are   *)
(* the environment: their choices are the \E of the actions.               *)
(***************************************************************************)
EXTENDS Integers, Sequences, FiniteSets, TLC

\* ------------------------------------------------------------------ bounds
\* Lines the peer writes on stderr in one session.
MaxLines == 2
\* Turns the loop starts in one session (the code's loop is unbounded).
MaxTurns == 2
\* Tool calls the policy requests in one turn.
MaxCalls == 2
\* Descriptors in one tools/list answer.
MaxTools == 2

\* --------------------------------------------------------------- variables
VARIABLES
    pc,           \* where the main thread is
    rpc,          \* the request send_request has written and not yet read the answer of
    request_id,   \* MCPClient.request_id
    sent,         \* every request line written to the peer's stdin, in order
    received,     \* how many times stdout.readline() has returned
    last,         \* the line send_request just read and how it ended, until its caller moves on
    tools,        \* GameAgent.tools
    map_summary,  \* GameAgent.map_summary
    warned,       \* initialize printed "Could not load map summary"
    turn_count,   \* GameAgent.turn_count
    pending,      \* tool calls of this turn's message not yet executed
    offered,      \* openai_tools of the turn in progress
    turnErr,      \* the exception the turn in progress caught and printed
    fatalErr,     \* what main's except Exception block printed
    readyFired,   \* times wait_for_connection returned True
    stderrPipe,   \* raw lines the peer wrote on stderr, not yet read
    drained,      \* every decoded line _read_stderr put on stderr_queue
    qhead,        \* how many of them wait_for_connection has taken off the queue
    printed,      \* the "[MCP Server] ..." lines _read_stderr printed
    drain,        \* the state of the _read_stderr thread
    proc,         \* the state of the peer process
    shutdownLog   \* the calls main's finally block made on the process

vars == <<pc, rpc, request_id, sent, received, last, tools, map_summary, warned,
          turn_count, pending, offered, turnErr, fatalErr, readyFired,
          stderrPipe, drained, qhead, printed, drain, proc, shutdownLog>>

clientVars == <<rpc, request_id, sent, received, last>>
agentVars == <<tools, map_summary, warned, turn_count, pending, offered, turnErr>>
stderrVars == <<stderrPipe, drained, printed, drain>>

\* ------------------------------------------------------------ stderr lines
\* A line is a sequence of tokens; Python's `in` on strings is the search for
\* a contiguous run of them.
Contains(pat, line) ==
    \E i \in 0..(Len(line) - Len(pat)) : SubSeq(line, i + 1, i + Len(pat)) = pat

NoiseSubstrings ==
    { <<"Received", "game", "update">>,
      <<"Broadcasting", "game", "update">>,
      <<"Game", "state", "updated">>,
      <<"Tick:">>,
      <<"packedTileUpdates">> }

Sentinel == <<"Game", "connected", "successfully">>

\* The filter of _read_stderr, with a letter-case slip: "tick:" counts as "Tick:".
IsNoiseAnyCase(decoded) ==
    \E noise \in NoiseSubstrings \cup {<<"tick:">>} : Contains(noise, decoded)

IsNoise(decoded) == \E noise \in NoiseSubstrings : Contains(noise, decoded)

\* The test of wait_for_connection, requiring the whole line to be the sentinel.
IsSentinelWholeLine(line) == line = Sentinel

\* The test of wait_for_connection, satisfied by any line at all.
IsSentinelAnyLine(line) == Len(line) >= 0

IsSentinel(line) == Contains(Sentinel, line)

\* bytes.decode('utf-8') raises UnicodeDecodeError on this token.
BadByte == "<0xff>"
Decodable(raw) == \A i \in 1..Len(raw) : raw[i] # BadByte

Whitespace == {"\n", " "}
RECURSIVE StripLeft(_)
StripLeft(s) ==
    IF s # <<>> /\ Head(s) \in Whitespace THEN StripLeft(Tail(s)) ELSE s
RECURSIVE StripRight(_)
StripRight(s) ==
    IF s # <<>> /\ s[Len(s)] \in Whitespace
    THEN StripRight(SubSeq(s, 1, Len(s) - 1)) ELSE s
\* line.decode('utf-8').strip()
Decode(raw) == StripRight(StripLeft(raw))

\* The lines the peer is taken to write on stderr.
SampleLines ==
    { <<"Tick:", "5">>,
      <<"tick:", "5">>,
      Sentinel,
      <<"Game", "connected", "successfully", "Tick:", "5">>,
      <<BadByte>> }
RawLines == { Append(l, "\n") : l \in SampleLines }

\* ------------------------------------------------------------------ values
None == [tag |-> "null"]
Exc(type, msg) == [tag |-> "exc", type |-> type, msg |-> msg]
Ret(value) == [tag |-> "ret", value |-> value]

Absent == "<absent>"
EmptySchema == "{}"
Descriptors ==
    { [name |-> "game.send_intent", description |-> "d", inputSchema |-> "schemaA"],
      [name |-> "game.set_attack_ratio", description |-> Absent, inputSchema |-> Absent],
      [name |-> Absent, description |-> "d", inputSchema |-> "schemaA"] }

SeqsUpTo(S, n) == UNION { [1..k -> S] : k \in 0..n }
\* Names are unique within one answer.
ToolLists ==
    { l \in SeqsUpTo(Descriptors, MaxTools) :
        \A i, j \in 1..Len(l) : l[i].name = l[j].name => i = j }

\* A JSON object with at most one of the keys the wrappers look up.
Obj(key, toolList, text) ==
    [tag |-> "object", key |-> key, tools |-> toolList, text |-> text]
EmptyObj == Obj("none", <<>>, "")
\* Resource and tool texts: one that json.loads accepts, one it rejects.
Texts == {"{}", "raw"}
JsonLoadsOk(text) == text = "{}"

ResultsFor(method) ==
    {None, EmptyObj} \cup
    CASE method = "tools/list" -> { Obj("tools", l, "") : l \in ToolLists }
      [] method = "resources/read" -> { Obj("contents", <<>>, t) : t \in Texts }
      [] method = "tools/call" -> { Obj("content", <<>>, t) : t \in Texts }

Errors == { None, [tag |-> "error", code |-> "-1", message |-> "bad"] }

Line(kind, id, hasResult, result, hasError, error) ==
    [kind |-> kind, id |-> id, hasResult |-> hasResult, result |-> result,
     hasError |-> hasError, error |-> error]
Eof == Line("eof", 0, FALSE, None, FALSE, None)
\* What the peer may write on stdout in answer to request `req`: a line that is
\* no JSON, or a JSON object with any of id (right or wrong), result, error.
ResponseLines(req) ==
    { Line("garbage", 0, FALSE, None, FALSE, None) } \cup
    { Line("json", id, TRUE, r, FALSE, None) :
        id \in {req.id, req.id + 1}, r \in ResultsFor(req.method) } \cup
    { Line("json", id, FALSE, None, TRUE, e) :
        id \in {req.id, req.id + 1}, e \in Errors } \cup
    { Line("json", req.id, TRUE, EmptyObj, TRUE, e) : e \in Errors } \cup
    { Line("json", req.id, FALSE, None, FALSE, None) }

\* ------------------------------------------------------------ MCPClient
\* f"MCP error: {response['error']}": the text of the error object.
FormatError(e) ==
    IF e.tag = "null" THEN <<"MCP error: ", "None">>
    ELSE <<"MCP error: ", "code", e.code, "message", e.message>>

\* send_request testing the error for truth, `if response.get("error")`: an
\* error of null is no error.
send_request_result_truthy(req, line) ==
    IF line.kind = "eof" THEN Exc("RuntimeError", <<"MCP server closed stdout">>)
    ELSE IF line.kind = "garbage" THEN Exc("JSONDecodeError", <<>>)
    ELSE IF line.hasError /\ line.error.tag # "null"
         THEN Exc("RuntimeError", FormatError(line.error))
    ELSE Ret(IF line.hasResult THEN line.result ELSE None)

\* send_request from the line readline() returned on: what the call raises or
\* returns.  The line's id is never looked at.
send_request_result(req, line) ==
    IF line.kind = "eof" THEN Exc("RuntimeError", <<"MCP server closed stdout">>)
    ELSE IF line.kind = "garbage" THEN Exc("JSONDecodeError", <<>>)
    ELSE IF line.hasError THEN Exc("RuntimeError", FormatError(line.error))
    ELSE Ret(IF line.hasResult THEN line.result ELSE None)

\* result.get(...) on None
NoneHasNoGet == Exc("AttributeError", <<"'NoneType' object has no attribute 'get'">>)

list_tools(o) ==
    IF o.tag = "exc" THEN o
    ELSE IF o.value.tag = "null" THEN NoneHasNoGet
    ELSE Ret(IF o.value.key = "tools" THEN o.value.tools ELSE <<>>)

read_resource(o) ==
    IF o.tag = "exc" THEN o
    ELSE IF o.value.tag = "null" THEN NoneHasNoGet
    ELSE Ret(IF o.value.key = "contents" THEN o.value.text ELSE "")

call_tool(o) ==
    IF o.tag = "exc" THEN o
    ELSE IF o.value.tag = "null" THEN NoneHasNoGet
    ELSE IF o.value.key # "content" THEN Ret(None)
    ELSE IF JsonLoadsOk(o.value.text) THEN Ret([tag |-> "json", text |-> o.value.text])
    ELSE Ret([tag |-> "text", text |-> o.value.text])

\* ------------------------------------------------------------ GameAgent
\* get_game_state falling back to an empty state when the read fails.
get_game_state_defaulting(o) ==
    IF o.tag = "exc" THEN Ret("{}")
    ELSE IF JsonLoadsOk(o.value) THEN Ret(o.value)
    ELSE Exc("JSONDecodeError", <<>>)

\* json.loads(self.mcp.read_resource("game://state"))
get_game_state(o) ==
    IF o.tag = "exc" THEN o
    ELSE IF JsonLoadsOk(o.value) THEN Ret(o.value)
    ELSE Exc("JSONDecodeError", <<>>)

\* dict.get(key, default)
Get(field, default) == IF field = Absent THEN default ELSE field

ConvertTool(tool) ==
    [type |-> "function",
     function |-> [name |-> tool.name,
                   description |-> Get(tool.description, ""),
                   parameters |-> Get(tool.inputSchema, EmptySchema)]]

\* The conversion with its result built by prepending: the order is reversed.
convert_reversed(toolList) ==
    [i \in 1..Len(toolList) |-> ConvertTool(toolList[Len(toolList) + 1 - i])]

convert_mcp_tools_to_openai_format(toolList) ==
    [i \in 1..Len(toolList) |-> ConvertTool(toolList[i])]

\* What the policy may answer: an error, or a message with tool calls whose
\* arguments json.loads accepts or rejects.
ToolCalls == { [name |-> "game.send_intent", arguments |-> a] : a \in Texts }
Decisions ==
    { [ok |-> FALSE, calls |-> <<>>] } \cup
    { [ok |-> TRUE, calls |-> c] : c \in SeqsUpTo(ToolCalls, MaxCalls) }

\* ----------------------------------------------------------------- state
NoCall == [id |-> 0, method |-> "none", uri |-> "none"]
NoLine == Line("none", 0, FALSE, None, FALSE, None)
NoLast == [req |-> 0, line |-> NoLine, out |-> None]
NoErr == None
\* No conversion made yet in this turn (an entry no conversion produces).
NotOffered ==
    << [type |-> "none",
        function |-> [name |-> "", description |-> "", parameters |-> ""]] >>

\* Where the main thread is inside main's try block ...
InitPcs == {"wait", "init_tools", "init_map"}
\* ... inside execute_turn's try block ...
TurnPcs == {"fetch", "decide", "exec"}
\* ... and between turns.
LoopPcs == {"loop", "pause"}
TryPcs == InitPcs \cup TurnPcs \cup LoopPcs
\* main's two except blocks; its finally block is at "grace".
HandlerPcs == {"stopping", "fatal"}
\* The places that call send_request, and what they ask for.
CallSites == {"init_tools", "init_map", "fetch", "exec"}
\* The requests with the turn's first call fetching the tools anew.
RequestRefetchingTools(site, id) ==
    CASE site \in {"init_tools", "fetch"} -> [id |-> id, method |-> "tools/list", uri |-> "none"]
      [] site = "init_map" -> [id |-> id, method |-> "resources/read", uri |-> "game://map/summary"]
      [] site = "exec" -> [id |-> id, method |-> "tools/call", uri |-> "none"]

Request(site, id) ==
    CASE site = "init_tools" -> [id |-> id, method |-> "tools/list", uri |-> "none"]
      [] site = "init_map" -> [id |-> id, method |-> "resources/read", uri |-> "game://map/summary"]
      [] site = "fetch" -> [id |-> id, method |-> "resources/read", uri |-> "game://state"]
      [] site = "exec" -> [id |-> id, method |-> "tools/call", uri |-> "none"]

Init ==
    /\ pc = "wait"
    /\ rpc = NoCall
    /\ request_id = 0
    /\ sent = <<>>
    /\ received = 0
    /\ last = NoLast
    /\ tools = <<>>
    /\ map_summary = None
    /\ warned = FALSE
    /\ turn_count = 0
    /\ pending = <<>>
    /\ offered = NotOffered
    /\ turnErr = NoErr
    /\ fatalErr = NoErr
    /\ readyFired = 0
    /\ stderrPipe = <<>>
    /\ drained = <<>>
    /\ qhead = 0
    /\ printed = <<>>
    /\ drain = "running"
    /\ proc = "running"
    /\ shutdownLog = <<>>

\* ------------------------------------------------------------ exceptions
\* KeyboardInterrupt derives from BaseException, not from Exception: no
\* `except Exception` clause matches it.
IsException(e) == e.type # "KeyboardInterrupt"

\* execute_turn's handler with RuntimeError taken for fatal: it reaches main.
ExceptHandlerRuntimeFatal(site, e) ==
    IF ~IsException(e) THEN "interrupt"
    ELSE IF site = "init_map" THEN "initialize"
    ELSE IF site \in TurnPcs /\ e.type # "RuntimeError" THEN "execute_turn"
    ELSE "main"

\* initialize with list_tools moved inside its try block.
ExceptHandlerInitCatchesAll(site, e) ==
    IF ~IsException(e) THEN "interrupt"
    ELSE IF site \in {"init_tools", "init_map"} THEN "initialize"
    ELSE IF site \in TurnPcs THEN "execute_turn"
    ELSE "main"

\* execute_turn's handler written as a bare `except:`: it catches
\* KeyboardInterrupt as well.
ExceptHandlerBareExcept(site, e) ==
    IF site \in TurnPcs THEN "execute_turn"
    ELSE IF ~IsException(e) THEN "interrupt"
    ELSE IF site = "init_map" THEN "initialize"
    ELSE "main"

\* The except clause that catches exception e raised while the main thread is
\* at `site`: initialize's around the map summary, execute_turn's around the
\* turn body, main's around everything else, all of them `except Exception`;
\* main's `except KeyboardInterrupt` for the operator's interrupt.
ExceptHandler(site, e) ==
    IF ~IsException(e) THEN "interrupt"
    ELSE IF site = "init_map" THEN "initialize"
    ELSE IF site \in TurnPcs THEN "execute_turn"
    ELSE "main"

\* Exception e is raised where the main thread is.
Raised(e) ==
    LET h == ExceptHandler(pc, e) IN
    /\ pending' = <<>>
    /\ CASE h = "initialize" ->
              pc' = "loop" /\ warned' = TRUE /\ UNCHANGED <<turnErr, fatalErr>>
         [] h = "execute_turn" ->
              pc' = "pause" /\ turnErr' = e /\ UNCHANGED <<warned, fatalErr>>
         [] h = "interrupt" ->
              pc' = "stopping" /\ turnErr' = NoErr /\ UNCHANGED <<warned, fatalErr>>
         [] OTHER ->
              pc' = "fatal" /\ fatalErr' = e /\ UNCHANGED <<warned, turnErr>>

\* ------------------------------------------------------- the environment
Emitted == Len(stderrPipe) + Len(drained) + (IF drain = "crashed" THEN 1 ELSE 0)

\* The peer writes one line on stderr.
peer_emit ==
    /\ pc # "done"
    /\ proc = "running"
    /\ Emitted < MaxLines
    /\ \E raw \in RawLines : stderrPipe' = Append(stderrPipe, raw)
    /\ UNCHANGED <<pc, clientVars, agentVars, fatalErr, readyFired, drained,
                   qhead, printed, drain, proc, shutdownLog>>

\* The peer exits (on its own, or on the SIGTERM it was sent): its pipes close.
peer_exit ==
    /\ pc # "done"
    /\ proc = "running"
    /\ proc' = "exited"
    /\ UNCHANGED <<pc, clientVars, agentVars, fatalErr, readyFired, stderrVars,
                   qhead, shutdownLog>>

\* ----------------------------------------------- MCPClient._read_stderr
\* The queue fed after the noise filter: a noise line is not queued.
stderr_queue_put_unless_noise(q, decoded) ==
    IF IsNoise(decoded) THEN q ELSE Append(q, decoded)

\* A one-line slot in place of the queue: each line overwrites the one before.
stderr_slot_put(q, decoded) == <<decoded>>

\* self.stderr_queue.put(decoded)
stderr_queue_put(q, decoded) == Append(q, decoded)

\* One iteration of `for line in self.process.stderr`.
read_stderr ==
    /\ pc # "done"
    /\ drain = "running"
    /\ stderrPipe # <<>>
    /\ stderrPipe' = Tail(stderrPipe)
    /\ IF ~Decodable(Head(stderrPipe))
       THEN \* UnicodeDecodeError ends the thread
            /\ drain' = "crashed"
            /\ UNCHANGED <<drained, printed>>
       ELSE LET decoded == Decode(Head(stderrPipe)) IN
            /\ drained' = stderr_queue_put(drained, decoded)
            /\ printed' = IF IsNoise(decoded) THEN printed ELSE Append(printed, decoded)
            /\ UNCHANGED drain
    /\ UNCHANGED <<pc, clientVars, agentVars, fatalErr, readyFired, qhead, proc,
                   shutdownLog>>

\* The loop ends at end-of-input.
read_stderr_eof ==
    /\ pc # "done"
    /\ drain = "running"
    /\ stderrPipe = <<>>
    /\ proc # "running"
    /\ drain' = "finished"
    /\ UNCHANGED <<pc, clientVars, agentVars, fatalErr, readyFired, stderrPipe,
                   drained, printed, qhead, proc, shutdownLog>>

\* ------------------------------------------ MCPClient.wait_for_connection
\* stderr_queue.get returned a line.  (A get that ends in queue.Empty changes
\* nothing and is left out.)
wait_for_connection_get ==
    /\ pc = "wait"
    /\ qhead < Len(drained)
    /\ qhead' = qhead + 1
    /\ IF IsSentinel(drained[qhead + 1])
       THEN pc' = "init_tools" /\ readyFired' = readyFired + 1
       ELSE UNCHANGED <<pc, readyFired>>
    /\ UNCHANGED <<clientVars, agentVars, fatalErr, stderrVars, proc, shutdownLog>>

\* The 30 seconds are over at the loop's test.
wait_for_connection_timeout ==
    /\ pc = "wait"
    /\ Raised(Exc("TimeoutError", <<"Game failed to connect to MCP server within timeout">>))
    /\ UNCHANGED <<clientVars, tools, map_summary, turn_count, offered, readyFired,
                   stderrVars, qhead, proc, shutdownLog>>

\* ------------------------------------------------ MCPClient.send_request
\* self.request_id += 1 on a counter one digit wide: after 2 comes 2 again.
NextRequestIdSaturating(id) == IF id >= 2 THEN 2 ELSE id + 1

\* self.request_id += 1
NextRequestId(id) == id + 1

\* The first half: the id is allocated and the request line written.  A write
\* to the pipe of a peer that has exited raises BrokenPipeError.
send_request_write ==
    /\ pc \in CallSites
    /\ rpc = NoCall
    /\ pc = "exec" => JsonLoadsOk(Head(pending).arguments)
    /\ request_id' = NextRequestId(request_id)
    /\ IF proc = "running"
       THEN /\ sent' = Append(sent, Request(pc, request_id'))
            /\ rpc' = Request(pc, request_id')
            /\ last' = NoLast
            /\ UNCHANGED <<pc, pending, warned, turnErr, fatalErr>>
       ELSE /\ last' = [req |-> request_id', line |-> NoLine,
                        out |-> Exc("BrokenPipeError", <<>>)]
            /\ Raised(Exc("BrokenPipeError", <<>>))
            /\ UNCHANGED <<sent, rpc>>
    /\ UNCHANGED <<received, tools, map_summary, turn_count, offered, readyFired, stderrVars,
                   qhead, proc, shutdownLog>>

\* The second half: readline() returns the peer's next line, or b"" once the
\* peer's stdout is closed.
StdoutLines == IF proc = "running" THEN ResponseLines(rpc) ELSE {Eof}
\* The answer read past one line that is taken for a notification: readline()
\* returns twice in the call.
AnsweredAfterSkippedLine(line) ==
    /\ last' = [req |-> rpc.id, line |-> line, out |-> send_request_result(rpc, line)]
    /\ rpc' = NoCall
    /\ received' = received + 2

Answered(line) ==
    /\ last' = [req |-> rpc.id, line |-> line, out |-> send_request_result(rpc, line)]
    /\ rpc' = NoCall
    /\ received' = received + 1

\* ------------------------------------------------- GameAgent.initialize
\* self.tools = self.mcp.list_tools(), then the loop printing tool['name'].
initialize_tools ==
    /\ pc = "init_tools"
    /\ rpc # NoCall
    /\ \E line \in StdoutLines :
         LET r == list_tools(send_request_result(rpc, line)) IN
         /\ Answered(line)
         /\ IF r.tag = "exc"
            THEN Raised(r) /\ UNCHANGED tools
            ELSE /\ tools' = r.value
                 /\ IF \E i \in 1..Len(r.value) : r.value[i].name = Absent
                    THEN Raised(Exc("KeyError", <<"name">>))
                    ELSE /\ pc' = "init_map"
                         /\ UNCHANGED <<pending, warned, turnErr, fatalErr>>
    /\ UNCHANGED <<request_id, sent, map_summary, turn_count, offered, readyFired,
                   stderrVars, qhead, proc, shutdownLog>>

\* self.map_summary = self.mcp.read_resource("game://map/summary"), in try.
initialize_map_summary ==
    /\ pc = "init_map"
    /\ rpc # NoCall
    /\ \E line \in StdoutLines :
         LET r == read_resource(send_request_result(rpc, line)) IN
         /\ Answered(line)
         /\ IF r.tag = "exc"
            THEN Raised(r) /\ UNCHANGED map_summary
            ELSE /\ map_summary' = [tag |-> "text", text |-> r.value]
                 /\ pc' = "loop"
                 /\ UNCHANGED <<pending, warned, turnErr, fatalErr>>
    /\ UNCHANGED <<request_id, sent, tools, turn_count, offered, readyFired,
                   stderrVars, qhead, proc, shutdownLog>>

\* ----------------------------------------------- GameAgent.execute_turn
\* main's `while True` calls execute_turn: the turn number is printed.
execute_turn_begin ==
    /\ pc = "loop"
    /\ turn_count < MaxTurns
    /\ turn_count' = turn_count + 1
    /\ turnErr' = NoErr
    /\ pc' = "fetch"
    /\ last' = NoLast
    /\ UNCHANGED <<rpc, request_id, sent, received, tools, map_summary, warned, pending,
                   offered, fatalErr, readyFired, stderrVars, qhead, proc,
                   shutdownLog>>

\* game_state = self.get_game_state(): the answer to resources/read arrives.
execute_turn_fetch ==
    /\ pc = "fetch"
    /\ rpc # NoCall
    /\ \E line \in StdoutLines :
         LET r == get_game_state(read_resource(send_request_result(rpc, line))) IN
         /\ Answered(line)
         /\ IF r.tag = "exc"
            THEN Raised(r)
            ELSE pc' = "decide" /\ UNCHANGED <<pending, warned, turnErr, fatalErr>>
    /\ UNCHANGED <<request_id, sent, tools, map_summary, turn_count, offered,
                   readyFired, stderrVars, qhead, proc, shutdownLog>>

\* The prompt, the conversion of the tools and the policy's answer.
execute_turn_decide ==
    /\ pc = "decide"
    /\ offered' = convert_mcp_tools_to_openai_format(tools)
    /\ \E d \in Decisions :
         IF ~d.ok
         THEN Raised(Exc("APIConnectionError", <<>>))
         ELSE /\ pending' = d.calls
              /\ pc' = IF d.calls = <<>> THEN "pause" ELSE "exec"
              /\ UNCHANGED <<warned, turnErr, fatalErr>>
    /\ last' = NoLast
    /\ UNCHANGED <<rpc, request_id, sent, received, tools, map_summary, turn_count,
                   readyFired, stderrVars, qhead, proc, shutdownLog>>

\* arguments = json.loads(tool_call.function.arguments) raises.
execute_turn_bad_arguments ==
    /\ pc = "exec"
    /\ rpc = NoCall
    /\ ~JsonLoadsOk(Head(pending).arguments)
    /\ Raised(Exc("JSONDecodeError", <<>>))
    /\ last' = NoLast
    /\ UNCHANGED <<rpc, request_id, sent, received, tools, map_summary, turn_count, offered,
                   readyFired, stderrVars, qhead, proc, shutdownLog>>

\* result = self.mcp.call_tool(...): the answer to tools/call arrives.
execute_turn_call ==
    /\ pc = "exec"
    /\ rpc # NoCall
    /\ \E line \in StdoutLines :
         LET r == call_tool(send_request_result(rpc, line)) IN
         /\ Answered(line)
         /\ IF r.tag = "exc"
            THEN Raised(r)
            ELSE /\ pending' = Tail(pending)
                 /\ pc' = IF Tail(pending) = <<>> THEN "pause" ELSE "exec"
                 /\ UNCHANGED <<warned, turnErr, fatalErr>>
    /\ UNCHANGED <<request_id, sent, tools, map_summary, turn_count, offered,
                   readyFired, stderrVars, qhead, proc, shutdownLog>>

\* ------------------------------------------------------------------ main
\* execute_turn has returned and time.sleep(TURN_INTERVAL_SECONDS) returns.
main_sleep ==
    /\ pc = "pause"
    /\ pc' = "loop"
    /\ last' = NoLast
    /\ offered' = NotOffered
    /\ turnErr' = NoErr
    /\ UNCHANGED <<rpc, request_id, sent, received, tools, map_summary, warned, turn_count,
                   pending, fatalErr, readyFired, stderrVars, qhead, proc,
                   shutdownLog>>

\* Ctrl+C while the main thread is inside main's try block: KeyboardInterrupt
\* is raised in whatever it was doing (a call in progress is abandoned).
KeyboardInterrupt ==
    /\ pc \in TryPcs
    /\ Raised(Exc("KeyboardInterrupt", <<>>))
    /\ rpc' = NoCall
    /\ last' = NoLast
    /\ offered' = NotOffered
    /\ UNCHANGED <<request_id, sent, received, tools, map_summary, turn_count, readyFired,
                   stderrVars, qhead, proc, shutdownLog>>

\* Either except block of main has printed; the finally block starts:
\* mcp_process.terminate(), then the wait begins.  (Ctrl+C inside an except
\* block leads to the finally block as well: it is this same step.)
main_terminate ==
    /\ pc \in HandlerPcs
    /\ shutdownLog' = Append(shutdownLog, "terminate")
    /\ pc' = "grace"
    /\ last' = NoLast
    /\ UNCHANGED <<rpc, request_id, sent, received, agentVars, fatalErr, readyFired,
                   stderrVars, qhead, proc>>

\* mcp_process.wait(timeout=5) returns: the peer has exited.
main_wait_exited ==
    /\ pc = "grace"
    /\ proc # "running"
    /\ shutdownLog' = Append(shutdownLog, "wait")
    /\ pc' = "done"
    /\ UNCHANGED <<clientVars, agentVars, fatalErr, readyFired, stderrVars, qhead, proc>>

\* mcp_process.wait(timeout=5) raises TimeoutExpired, the peer still running:
\* mcp_process.kill().
main_wait_timeout_kill ==
    /\ pc = "grace"
    /\ proc = "running"
    /\ shutdownLog' = shutdownLog \o <<"wait", "kill">>
    /\ proc' = "killed"
    /\ pc' = "done"
    /\ UNCHANGED <<clientVars, agentVars, fatalErr, readyFired, stderrVars, qhead>>

\* Ctrl+C while the main thread waits in main's finally block: the
\* KeyboardInterrupt leaves wait() and main, and kill() is skipped.
KeyboardInterruptInFinally ==
    /\ pc = "grace"
    /\ pc' = "done"
    /\ UNCHANGED <<clientVars, agentVars, fatalErr, readyFired, stderrVars, qhead,
                   proc, shutdownLog>>

Next ==
    \/ peer_emit
    \/ peer_exit
    \/ read_stderr
    \/ read_stderr_eof
    \/ wait_for_connection_get
    \/ wait_for_connection_timeout
    \/ send_request_write
    \/ initialize_tools
    \/ initialize_map_summary
    \/ execute_turn_begin
    \/ execute_turn_fetch
    \/ execute_turn_decide
    \/ execute_turn_bad_arguments
    \/ execute_turn_call
    \/ main_sleep
    \/ KeyboardInterrupt
    \/ main_terminate
    \/ main_wait_exited
    \/ main_wait_timeout_kill
    \/ KeyboardInterruptInFinally

Spec == Init /\ [][Next]_vars

\* ================================================================ claims
\* What the claims mean by their words, stated apart from the definitions the
\* actions use.
HasSentinel(line) == Contains(<<"Game", "connected", "successfully">>, line)
StdoutClosed == Exc("RuntimeError", <<"MCP server closed stdout">>)
HandshakeTimeout ==
    Exc("TimeoutError", <<"Game failed to connect to MCP server within timeout">>)
Index(seq, x) == { i \in 1..Len(seq) : seq[i] = x }

\* ---------------------------------------------------------------- C1
\* C1: a call returns a result only from a response whose id equals the id of
\* the request the call just sent; a response with another id is raised as an
\* error and its result is never returned.
C1_ResultOnlyFromOwnResponse ==
    last.out.tag = "ret" => last.line.id = last.req

\* ---------------------------------------------------------------- C2
\* C2: readiness fires at most once in a session.  The first sentinel line
\* that wait_for_connection takes off the queue makes it return (the waiting
\* main path goes on to initialize), and it is the first sentinel line the
\* drain thread queued; once readiness has fired, no later sentinel line fires
\* it again: the queue is not read any more and the count stays at one.
C2_ReadinessFiresOnce ==
    [][ /\ (pc = "wait" /\ qhead' = qhead + 1 /\ HasSentinel(drained[qhead + 1]))
           => (pc' = "init_tools" /\ readyFired' = 1)
        /\ readyFired' = 1
           => /\ qhead' >= 1
              /\ HasSentinel(drained'[qhead'])
              /\ \A i \in 1..(qhead' - 1) : ~HasSentinel(drained'[i])
        /\ readyFired = 1 => (readyFired' = 1 /\ qhead' = qhead)
        /\ readyFired' <= 1 ]_vars

\* Readiness has fired once and a second sentinel line has since been queued.
C2_Witness ==
    /\ readyFired = 1
    /\ \E i \in (qhead + 1)..Len(drained) : HasSentinel(drained[i])

\* ---------------------------------------------------------------- C3
\* C3: no failed turn ends the turn loop.  An exception raised by a call of a
\* turn (state fetch or tool call) is caught by the turn and the controller
\* is pausing with it logged; whatever a turn does, the only ways on from it
\* are the rest of the turn, the pause and the operator's interrupt; the pause
\* leads to the loop's next iteration and that to the next turn; main's fatal
\* handler is never reached once a turn has started.
C3_FailedTurnKeepsLoop ==
    [][ /\ (pc \in TurnPcs /\ last'.out.tag = "exc")
           => (pc' = "pause" /\ turnErr' = last'.out)
        /\ pc \in TurnPcs => pc' \in TurnPcs \cup {"pause", "stopping"}
        /\ pc = "pause" => pc' \in {"pause", "loop", "stopping"}
        /\ pc = "loop" => \/ pc' \in {"loop", "stopping"}
                          \/ pc' = "fetch" /\ turn_count' = turn_count + 1
        /\ turn_count' >= 1 => (pc' # "fatal" /\ fatalErr' = NoErr) ]_vars

\* The second turn is under way although a call of the first turn failed on a
\* broken pipe (the id was allocated, nothing was written), initialization
\* having gone through with the peer still alive.
C3_Witness ==
    /\ turn_count = 2
    /\ pc = "fetch"
    /\ ~warned
    /\ request_id > Len(sent)

\* ---------------------------------------------------------------- C4
\* C4: when stdout yields end-of-input during a call, the call raises
\* "closed stdout" and the session terminates; also when the call was issued
\* inside a turn: the controller is then past its turn loop, never pausing
\* for the next turn.
C4_TransportClosedEndsSession ==
    (turn_count >= 1 /\ last.out = StdoutClosed) => pc \notin TryPcs

\* ---------------------------------------------------------------- C5
\* C5: when main has ended, shutdown has run exactly once and in full:
\* terminate(), then the wait, then kill() if and only if the peer had not
\* exited by the end of the wait; the peer is never left running.
C5_ShutdownCompletes ==
    pc = "done" =>
        /\ proc # "running"
        /\ shutdownLog \in {<<"terminate", "wait">>, <<"terminate", "wait", "kill">>}
        /\ (proc = "killed") <=> (Index(shutdownLog, "kill") # {})


\* ---------------------------------------------------------------- C6
\* Letter casing folded, for the tokens the lines and noise substrings use.
LowerToken(t) ==
    CASE t = "Tick:" -> "tick:"
      [] t = "Game" -> "game"
      [] t = "Received" -> "received"
      [] t = "Broadcasting" -> "broadcasting"
      [] t = "packedTileUpdates" -> "packedtileupdates"
      [] OTHER -> t
Lower(line) == [i \in 1..Len(line) |-> LowerToken(line[i])]
NoiseInAnyCasing(line) ==
    \E n \in { <<"Received", "game", "update">>, <<"Broadcasting", "game", "update">>,
               <<"Game", "state", "updated">>, <<"Tick:">>, <<"packedTileUpdates">> } :
        Contains(Lower(n), Lower(line))
NoiseInExactCasing(line) ==
    \E n \in { <<"Received", "game", "update">>, <<"Broadcasting", "game", "update">>,
               <<"Game", "state", "updated">>, <<"Tick:">>, <<"packedTileUpdates">> } :
        Contains(n, line)

\* C6 as stated: the printed lines are exactly the drained lines that contain
\* no noise substring, whatever the letter casing.
C6_SuppressedRegardlessOfCasing ==
    LET Reportable(l) == ~NoiseInAnyCasing(l) IN printed = SelectSeq(drained, Reportable)

\* C6 amended: the printed lines are exactly, and in order, the lines the
\* drain thread decoded that contain no noise substring in its exact casing,
\* at whatever position in the line.
C6_SuppressedInExactCasing ==
    LET Reportable(l) == ~NoiseInExactCasing(l) IN printed = SelectSeq(drained, Reportable)

\* A line with a noise substring at its end was suppressed and a line with
\* the same word in another casing was printed.
C6_Witness ==
    /\ \E i \in 1..Len(drained) :
         drained[i] = <<"Game", "connected", "successfully", "Tick:", "5">>
    /\ printed = << <<"tick:", "5">> >>

\* ---------------------------------------------------------------- C7
Adapted(i) == offered[i].function

\* C7 as stated: the adapted list has the length and order of the fetched
\* one and its i-th entry has the i-th descriptor's name, description and
\* inputSchema.
C7_AdaptationKeepsFields ==
    offered # NotOffered =>
        /\ Len(offered) = Len(tools)
        /\ \A i \in 1..Len(tools) :
             /\ Adapted(i).name = tools[i].name
             /\ Adapted(i).description = tools[i].description
             /\ Adapted(i).parameters = tools[i].inputSchema

\* C7 amended: the adapted list has the length and order of the fetched one;
\* its i-th entry has the i-th descriptor's name, its description and
\* inputSchema where the descriptor has them, the empty string for a
\* description it lacks and the empty schema for an inputSchema it lacks.
C7_AdaptationKeepsPresentFields ==
    offered # NotOffered =>
        /\ Len(offered) = Len(tools)
        /\ \A i \in 1..Len(tools) :
             /\ Adapted(i).name = tools[i].name
             /\ Adapted(i).description =
                  (IF tools[i].description = "<absent>" THEN "" ELSE tools[i].description)
             /\ Adapted(i).parameters =
                  (IF tools[i].inputSchema = "<absent>" THEN "{}" ELSE tools[i].inputSchema)

\* Two descriptors were fetched, the second without description and
\* inputSchema, and a turn has adapted them.
C7_Witness ==
    /\ offered # NotOffered
    /\ Len(tools) = 2
    /\ tools[1].description = "d"
    /\ tools[2].description = "<absent>"

\* ---------------------------------------------------------------- C8
\* C8: a response that carries an error field makes the call raise and return
\* nothing; the exception carries the error's code and message; inside a turn
\* the turn has logged that exception and the controller is pausing, the
\* session going on.
C8_RemoteErrorRaised ==
    (last.line.kind = "json" /\ last.line.hasError) =>
        /\ last.out.tag = "exc"
        /\ last.line.error.tag = "error" =>
             /\ Index(last.out.msg, last.line.error.code) # {}
             /\ Index(last.out.msg, last.line.error.message) # {}
        /\ turn_count >= 1 => (pc = "pause" /\ turnErr = last.out /\ fatalErr = NoErr)

\* Scenario B inside a turn.
C8_Witness ==
    /\ turn_count >= 1
    /\ pc = "pause"
    /\ last.line.hasError
    /\ last.line.error = [tag |-> "error", code |-> "-1", message |-> "bad"]

\* ---------------------------------------------------------------- C9
\* C9: wait_for_connection has returned (the main path is past it) only if
\* the line it last took off the queue contains the sentinel; after the
\* timeout the session is in its abort path, cleanup begins with terminate(),
\* no request has been written and no id allocated, and no turn has started.
C9_HandshakeGatesEverything ==
    /\ (pc \in TryPcs \ {"wait"} \/ request_id > 0 \/ sent # <<>> \/ turn_count > 0)
         => (readyFired = 1 /\ qhead >= 1 /\ HasSentinel(drained[qhead]))
    /\ fatalErr = HandshakeTimeout
         => /\ pc \in {"fatal", "grace", "done"}
            /\ readyFired = 0
            /\ request_id = 0 /\ sent = <<>> /\ rpc = NoCall
            /\ turn_count = 0
            /\ pc \in {"grace", "done"} => (shutdownLog # <<>> /\ shutdownLog[1] = "terminate")

\* The session ended on the timeout with lines read, none of them the sentinel.
C9_Witness ==
    /\ fatalErr = HandshakeTimeout
    /\ pc = "done"
    /\ qhead >= 1

\* ---------------------------------------------------------------- C10
\* C10: a call of initialize that raises while fetching tools/list puts main
\* in its fatal handler, and whenever that handler was entered no turn ever
\* starts and the session goes to cleanup; a call that raises while fetching
\* game://map/summary leaves a warning, map_summary unset, and main at the
\* turn loop.
C10_InitializationFailures ==
    [][ /\ (pc = "init_tools" /\ last'.out.tag = "exc")
           => (pc' = "fatal" /\ fatalErr' = last'.out)
        /\ pc = "init_tools" => pc' \in {"init_tools", "init_map", "fatal", "stopping"}
        /\ (pc = "init_tools" /\ pc' = "init_map") => last'.out.tag = "ret"
        /\ pc = "fatal" => (pc' \in {"fatal", "grace"} /\ turn_count' = 0)
        /\ fatalErr' # NoErr => (turn_count' = 0 /\ pc' \in {"fatal", "grace", "done"})
        /\ (pc = "init_map" /\ last'.out.tag = "exc")
           => (pc' = "loop" /\ warned' /\ map_summary' = None /\ fatalErr' = NoErr)
        /\ pc = "init_map" => pc' \in {"init_map", "loop", "stopping"} ]_vars

\* The map summary could not be fetched and a turn is under way.
C10_Witness ==
    /\ warned
    /\ map_summary = None
    /\ turn_count >= 1
    /\ pc \in TurnPcs

\* ---------------------------------------------------------------- C11
\* C11: the invocations the policy requested are executed in the order it
\* returned them, and a failed invocation (its arguments or its call raising)
\* does not cancel the rest of the turn: with more invocations of the turn to
\* come, the controller stays in ExecutingOperations with exactly the
\* remaining ones still to attempt.
C11_FailureKeepsRemainingInvocations ==
    [][ /\ (pc = "exec" /\ pc' = "exec" /\ pending' # pending)
           => pending' = Tail(pending)
        /\ (pc = "exec" /\ Len(pending) > 1 /\ turnErr' # NoErr)
           => (pc' = "exec" /\ pending' = Tail(pending)) ]_vars

\* ---------------------------------------------------------------- C12
Stopped == {"stopping", "grace", "done"}

\* C12: wherever the controller is inside main's try block (readiness wait,
\* initialization, any phase of a turn, the pause), the operator's interrupt
\* can be taken and takes it to Stopped; the per-turn handler never catches
\* the interrupt; from Stopped the next step is shutdown, beginning with
\* terminate(); once Stopped, no turn starts, no id is allocated and no
\* request is written.
C12_InterruptStopsSession ==
    [][ /\ pc \in TryPcs => ENABLED (KeyboardInterrupt /\ pc' = "stopping")
        /\ (turnErr'.tag = "exc" => turnErr'.type # "KeyboardInterrupt")
        /\ (fatalErr'.tag = "exc" => fatalErr'.type # "KeyboardInterrupt")
        /\ (pc # "stopping" /\ pc' = "stopping")
           => (pc \in TryPcs /\ rpc' = NoCall /\ pending' = <<>>)
        /\ pc = "stopping"
           => \/ pc' = "stopping"
              \/ pc' = "grace" /\ shutdownLog' = Append(shutdownLog, "terminate")
        /\ pc \in Stopped
           => /\ pc' \in Stopped
              /\ turn_count' = turn_count
              /\ request_id' = request_id
              /\ sent' = sent ]_vars

\* The operator stopped the session in its second turn, a tool call having
\* been sent, and shutdown has begun with terminate().
C12_Witness ==
    /\ pc = "grace"
    /\ fatalErr = NoErr
    /\ turn_count = 2
    /\ Len(sent) = request_id
    /\ sent[Len(sent)].method = "tools/call"
    /\ shutdownLog = <<"terminate">>

\* ---------------------------------------------------------------- C13
\* C13: the ids written to the peer are strictly increasing, hence no id is
\* sent twice; every call of send_request, whether it goes on to succeed or
\* to fail, raises the counter by exactly one and carries the new value,
\* both in the request it writes and in its outcome; no step lowers or
\* resets the counter, so the k-th call carries id k.
C13_RequestIdsMonotone ==
    [][ /\ \A i, j \in 1..Len(sent') : i < j => sent'[i].id < sent'[j].id
        /\ \A i \in 1..Len(sent') : sent'[i].id \in 1..request_id'
        /\ request_id' \in {request_id, request_id + 1}
        /\ sent' # sent
           => /\ request_id' = request_id + 1
              /\ Len(sent') = Len(sent) + 1
              /\ SubSeq(sent', 1, Len(sent)) = sent
              /\ sent'[Len(sent')].id = request_id'
        /\ (rpc' # rpc /\ rpc'.method # "none")
           => (rpc'.id = request_id' /\ request_id' = request_id + 1)
        /\ (last' # last /\ last'.out.tag # "null")
           => last'.req = request_id' ]_vars

\* The fifth request is out although the second call of the session failed
\* on its answer.
C13_Witness ==
    /\ warned
    /\ Len(sent) = 5
    /\ request_id = 5
    /\ rpc.id = 5

\* ---------------------------------------------------------------- C14
\* A step of the drain thread.
DrainStep == stderrPipe' # stderrPipe \/ drained' # drained \/ drain' # drain
\* A call of send_request ends in this step, returning or raising.
CallEnds == last' # last /\ last'.out.tag # "null"
\* Writes and reads on the primary channel alternate, beginning with a write,
\* with at most one request outstanding, and the drain thread stays off it.
HalfDuplex ==
    /\ received' <= Len(sent') /\ Len(sent') <= received' + 1
    /\ rpc'.method # "none" => (Len(sent') = received' + 1 /\ sent'[Len(sent')] = rpc')
    /\ sent' # sent => (Len(sent) = received /\ received' = received)
    /\ received' # received
       => (received' = received + 1 /\ Len(sent) = received + 1 /\ sent' = sent)
    /\ DrainStep => (sent' = sent /\ received' = received /\ rpc' = rpc)

C15_DrainKeepsDraining ==
    (pc # "done" /\ proc = "running")
        => (drain = "running" /\ (stderrPipe # <<>> => ENABLED read_stderr))

\* ---------------------------------------------------------------- C16
\* A line that is no JSON, or a JSON object that does not carry exactly one
\* of result and error.
Malformed(line) ==
    \/ line.kind = "garbage"
    \/ line.kind = "json" /\ (line.hasResult <=> line.hasError)

\* C16: a call that read a malformed line (unparseable, or carrying neither
\* a result nor an error, or carrying both) raises and returns no value.
C16_MalformedResponseRaises ==
    Malformed(last.line) => last.out.tag = "exc"

\* ---------------------------------------------------------------- C17
\* The requests for the operation descriptors among those written.
ToolsListRequests(log) == { i \in 1..Len(log) : log[i].method = "tools/list" }
\* The adapted form of descriptor d.
AdaptedForm(d) ==
    [type |-> "function",
     function |-> [name |-> d.name,
                   description |-> IF d.description = "<absent>" THEN "" ELSE d.description,
                   parameters |-> IF d.inputSchema = "<absent>" THEN "{}" ELSE d.inputSchema]]

\* C17: tools/list is written at most once, as the session's first request,
\* and exactly once before any turn has started; the catalog is what that
\* answer listed and only initialize assigns it: no step of a turn, of the
\* pause or of shutdown changes it; whenever a turn has offered descriptors
\* to the policy, they are the adapted forms of the catalog's entries, in
\* order.
C17_ToolsFetchedOnceAndImmutable ==
    [][ /\ ToolsListRequests(sent') \subseteq {1}
        /\ turn_count' >= 1 => ToolsListRequests(sent') = {1}
        /\ (pc = "init_tools" /\ pc' = "init_map")
           => tools' = (IF last'.line.result.tag = "object" /\ last'.line.result.key = "tools"
                        THEN last'.line.result.tools ELSE <<>>)
        /\ pc # "init_tools" => tools' = tools
        /\ offered' # NotOffered
           => /\ pc' \in {"exec", "pause"}
              /\ Len(offered') = Len(tools')
              /\ \A i \in 1..Len(tools') : offered'[i] = AdaptedForm(tools'[i]) ]_vars

\* The second turn has offered the policy the two fetched descriptors and is
\* executing an invocation.
C17_Witness ==
    /\ turn_count = 2
    /\ pc = "exec"
    /\ Len(tools) = 2
    /\ Len(offered) = 2
    /\ offered # NotOffered

\* ---------------------------------------------------------------- C18
\* The requests written so far that read the state snapshot / invoke a tool.
StateReads(log) == { i \in 1..Len(log) : log[i].uri = "game://state" }
ToolInvocations(log) == { i \in 1..Len(log) : log[i].method = "tools/call" }

\* C18: a turn begins from the loop and begins with FetchingState; the
\* phases follow in the order fetch, decide, execute, pause (the operator's
\* interrupt aside); the move to Deciding is the successful read of a
\* snapshot requested in this very turn, so that by then one snapshot has
\* been requested per turn; a failed fetch leads straight to the pause, the
\* policy not invoked and no operation requested; the policy is invoked only
\* in Deciding and tools are invoked only in ExecutingOperations, after the
\* policy returned; between the end of one turn and the start of the next
\* lies exactly one pause.
C18_TurnPhaseOrder ==
    [][ /\ turn_count' # turn_count
           => (pc = "loop" /\ pc' = "fetch" /\ turn_count' = turn_count + 1)
        /\ pc = "loop" => pc' \in {"loop", "fetch", "stopping"}
        /\ pc = "fetch" => pc' \in {"fetch", "decide", "pause", "stopping"}
        /\ pc = "decide" => pc' \in {"decide", "exec", "pause", "stopping"}
        /\ pc = "exec" => pc' \in {"exec", "pause", "stopping"}
        /\ pc = "pause" => pc' \in {"pause", "loop", "stopping"}
        /\ (pc' = "loop" /\ pc # "loop") => pc \in {"pause", "init_map"}
        /\ (pc = "fetch" /\ pc' = "decide")
           => /\ rpc.uri = "game://state"
              /\ received' = received + 1
              /\ last'.out.tag = "ret"
              /\ Cardinality(StateReads(sent')) = turn_count'
        /\ (pc = "fetch" /\ last'.out.tag = "exc")
           => (pc' = "pause" /\ offered' = NotOffered /\ pending' = <<>>)
        /\ pc' = "fetch" => (offered' = NotOffered /\ pending' = <<>>)
        /\ (offered' # offered /\ offered' # NotOffered) => pc = "decide"
        /\ pending' # <<>> => (pc \in {"decide", "exec"} /\ pc' = "exec")
        /\ ToolInvocations(sent') # ToolInvocations(sent)
           => (pc = "exec" /\ offered # NotOffered /\ pending # <<>>) ]_vars

\* The first turn invoked a tool; the fetch of the second turn failed and
\* the controller is pausing, the policy not invoked in this turn.
C18_Witness ==
    /\ turn_count = 2
    /\ pc = "pause"
    /\ turnErr # NoErr
    /\ offered = NotOffered
    /\ ToolInvocations(sent) # {}
    /\ Cardinality(StateReads(sent)) = 2

\* ---------------------------------------------------------------- C19
\* A raw line without its line end.
Chomp(raw) == SubSeq(raw, 1, Len(raw) - 1)

\* C19: every line the drain thread reads and decodes is put on the queue,
\* noise or not; a noise line adds nothing to the printed output and any
\* other line is printed; the line wait_for_connection takes off the queue
\* fires readiness exactly if it contains the sentinel, whether or not it is
\* noise, and otherwise leaves the main path waiting.
C19_SuppressionOnlyAffectsOutput ==
    [][ /\ (Len(stderrPipe') < Len(stderrPipe) /\ drain' = "running")
           => LET l == Chomp(Head(stderrPipe)) IN
              /\ drained' = Append(drained, l)
              /\ printed' = IF NoiseInExactCasing(l) THEN printed ELSE Append(printed, l)
        /\ qhead' # qhead
           => LET l == drained[qhead + 1] IN
              /\ pc = "wait" /\ qhead' = qhead + 1
              /\ HasSentinel(l) => (pc' = "init_tools" /\ readyFired' = readyFired + 1)
              /\ ~HasSentinel(l) => (pc' = "wait" /\ readyFired' = readyFired) ]_vars

\* "Tick: 5" came first and did not fire readiness; the next line, holding
\* both the sentinel and a noise substring, fired it; nothing was printed.
C19_Witness ==
    /\ drained = << <<"Tick:", "5">>,
                    <<"Game", "connected", "successfully", "Tick:", "5">> >>
    /\ printed = <<>>
    /\ qhead = 2
    /\ readyFired = 1
    /\ pc = "init_tools"

\* ---------------------------------------------------------------- C20
\* C20: no queued line is lost to the waiting main path.  The queue only
\* grows at its end, whatever the main path is doing, and the main path takes
\* its lines one at a time in order, so that while it waits no sentinel line
\* lies among the lines already taken and every queued line not yet taken
\* can be taken; a sentinel line taken, whatever was queued before it and
\* whenever it was queued, makes wait_for_connection return.  (The drain
\* thread runs from MCPClient.__init__ on: lines queued before the first
\* queue.get are lines queued with the main path at the wait and nothing
\* taken yet.)
C20_NoLostWakeup ==
    [][ /\ Len(drained') >= Len(drained)
        /\ SubSeq(drained', 1, Len(drained)) = drained
        /\ qhead' \in {qhead, qhead + 1}
        /\ qhead' <= Len(drained')
        /\ pc' = "wait" => \A i \in 1..qhead' : ~HasSentinel(drained'[i])
        /\ (pc = "wait" /\ qhead < Len(drained)) => ENABLED wait_for_connection_get
        /\ (pc = "wait" /\ qhead' = qhead + 1 /\ HasSentinel(drained[qhead + 1]))
           => (pc' = "init_tools" /\ readyFired' = 1) ]_vars

\* The sentinel line is queued behind another line; the main path has taken
\* that one and waits on.
C20_Witness ==
    /\ pc = "wait"
    /\ qhead = 1
    /\ Len(drained) = 2
    /\ ~HasSentinel(drained[1])
    /\ HasSentinel(drained[2])

====
